---- MODULE Spec2Model ----
(***************************************************************************)
(* Model of the response pipeline of packages/core: the ResponseQueue, the *)
(* Response processor (response.ts) and its pure helpers, and of the       *)
(* resolver of the initial visit (initialVisit.ts).                        *)
(*                                                                         *)
(* JavaScript values are tagged records, so that Array.isArray, typeof,    *)
(* truthiness and the spread operators are computed as the engine computes *)
(* them.  URLs are records of their parts; an href may be relative (empty  *)
(* origin) and hrefToUrl resolves it against window.location.              *)
(***************************************************************************)
EXTENDS Integers, Sequences, FiniteSets, TLC

VARIABLES
  queue,        \* ResponseQueue.queue: ids of the enqueued Response objects
  processing,   \* ResponseQueue.processing
  drains,       \* the running ResponseQueue.process() coroutines
  startup,      \* the promise reactions InitialVisit.handle() left pending
  responses,    \* the Response objects created so far, by id
  created,      \* history: the arguments each Response was constructed with
  currentPage,  \* the Page Store's current page
  preserveUrl,  \* History.preserveUrl
  storage,      \* session storage: the location-visit marker
  browser,      \* window.location, the navigation started, the overlay shown
  history,      \* the state the History Adapter holds for this entry
  trace,        \* history: the observable events, in order
  commitLog,    \* history: the pages committed to the Page Store, in order
  errorArgs,    \* history: the arguments onError was invoked with, in order
  family,       \* the input family the responses of this run are drawn from
  ret           \* result of a direct call of a pure helper (<<>> before it)

vars == <<queue, processing, drains, startup, responses, created, currentPage, preserveUrl,
          storage, browser, history, trace, commitLog, errorArgs, family, ret>>

-----------------------------------------------------------------------------
(* Bounds *)

\* Response.handle() calls in one run
MaxHandles == 2
\* Response.handle() calls in one run of the "queue" family
MaxQueueHandles == 3
\* longest array value drawn as a prop
MaxLen == 2
\* documents loaded in one run
MaxStartups == 2
\* Response.handle() calls in one run of the "startup" family
MaxVisits == 1
\* Response.handlePrefetch() calls that enqueue in one run
MaxPrefetchHandles == 1

-----------------------------------------------------------------------------
(* JavaScript values *)

Undef == [k |-> "undef"]
Null == [k |-> "null"]
Num(n) == [k |-> "num", n |-> n]
Str(s) == [k |-> "str", chars |-> s]
Arr(s) == [k |-> "arr", items |-> s]
Obj(f) == [k |-> "obj", fields |-> f]
Bool(b) == [k |-> "bool", b |-> b]

NoFields == [x \in {} |-> Undef]

\* the property keys of array indices: "0", "1", ...
IndexKeys == <<"0", "1", "2", "3", "4", "5", "6", "7", "8", "9", "10", "11">>

\* ToBoolean, as `x || y' applies it
Truthy(v) ==
  CASE v.k = "undef" -> FALSE
    [] v.k = "null" -> FALSE
    [] v.k = "num" -> v.n # 0
    [] v.k = "str" -> v.chars # <<>>
    [] v.k = "bool" -> v.b
    [] OTHER -> TRUE

\* Array.isArray(v)
IsArray(v) == v.k = "arr"

\* typeof v === 'object' (null included)
TypeofObject(v) == v.k \in {"arr", "obj", "null"}

\* whether [...v] throws a TypeError: v is not iterable
SpreadThrows(v) == v.k \notin {"arr", "str"}

\* the elements [...v] yields for an iterable v
SpreadItems(v) ==
  CASE v.k = "arr" -> v.items
    [] v.k = "str" -> [i \in 1..Len(v.chars) |-> Str(<<v.chars[i]>>)]
    [] OTHER -> <<>>

\* the own enumerable properties {...v} copies
SpreadFields(v) ==
  CASE v.k = "obj" -> v.fields
    [] v.k = "arr" ->
         [key \in {IndexKeys[i] : i \in 1..Len(v.items)} |->
            v.items[CHOOSE i \in 1..Len(v.items) : IndexKeys[i] = key]]
    [] v.k = "str" ->
         [key \in {IndexKeys[i] : i \in 1..Len(v.chars)} |->
            Str(<<v.chars[CHOOSE i \in 1..Len(v.chars) : IndexKeys[i] = key]>>)]
    [] OTHER -> NoFields

\* {...f, ...g}: the keys of both, those of g winning
Overlay(f, g) ==
  [key \in (DOMAIN f) \cup (DOMAIN g) |-> IF key \in DOMAIN g THEN g[key] ELSE f[key]]

\* obj[key], undefined when the key is absent
Get(f, key) == IF key \in DOMAIN f THEN f[key] ELSE Undef

\* obj[key] = v
Put(f, key, v) == [x \in (DOMAIN f) \cup {key} |-> IF x = key THEN v ELSE f[x]]

\* Object.keys(v).length
KeyCount(v) == Cardinality(DOMAIN SpreadFields(v))

-----------------------------------------------------------------------------
(* URLs *)

\* window.location of the running document
WindowOrigin == "https://app.test"

Href(o, p, s, h) == [origin |-> o, pathname |-> p, search |-> s, hash |-> h]

\* new URL(href, window.location): a relative href takes the window's origin
hrefToUrl(href) ==
  [href EXCEPT !.origin = IF href.origin = "" THEN WindowOrigin ELSE href.origin]

\* destination takes source's hash when it has none and both are the same
\* document
setHashIfSameUrl(src, dest) ==
  IF src.hash # "" /\ dest.hash = ""
     /\ [src EXCEPT !.hash = ""] = [dest EXCEPT !.hash = ""]
  THEN [dest EXCEPT !.hash = src.hash]
  ELSE dest

isSameUrlWithoutHash(a, b) == [a EXCEPT !.hash = ""] = [b EXCEPT !.hash = ""]

-----------------------------------------------------------------------------
(* Pages and responses *)

\* a Page payload; rememberedState and scrollRegions are Undef when the page
\* carries none, and mergeProps is <<>> when the payload has no such list
\* (`|| []')
Page(c, u, props, mp) ==
  [component |-> c, url |-> u, props |-> props, mergeProps |-> mp,
   rememberedState |-> Undef, scrollRegions |-> Undef]

\* requestParams.isPartial(): the visit asked for a subset of the props
isPartial(r) == r.partial

\* this.hasHeader('x-inertia')
isInertiaResponse(r) == r.inertia

\* this.hasStatus(409) && this.hasHeader('x-inertia-location')
isLocationVisit(r) == r.status = 409 /\ r.location # <<>>

\* shouldSetPage without the comparison of the URLs
ShouldSetPageComponentOnly(r, cur) ==
  IF ~r.async THEN TRUE
  ELSE IF r.originatingPage.component # r.data.component THEN TRUE
  ELSE r.originatingPage.component = cur.component

\* shouldSetPage comparing the whole URLs, query string included
ShouldSetPageComparingHref(r, cur) ==
  IF ~r.async THEN TRUE
  ELSE IF r.originatingPage.component # r.data.component THEN TRUE
  ELSE IF r.originatingPage.component # cur.component THEN FALSE
  ELSE hrefToUrl(r.originatingPage.url) = hrefToUrl(cur.url)

\* Response.shouldSetPage(pageResponse), pageResponse being r.data
ShouldSetPage(r, cur) ==
  IF ~r.async THEN TRUE
  ELSE IF r.originatingPage.component # r.data.component THEN TRUE
  ELSE IF r.originatingPage.component # cur.component THEN FALSE
  ELSE hrefToUrl(r.originatingPage.url).origin = hrefToUrl(cur.url).origin
       /\ hrefToUrl(r.originatingPage.url).pathname = hrefToUrl(cur.url).pathname

\* one iteration of propsToMerge.forEach: st is [threw, props], props being
\* pageResponse.props as mutated so far
MergeOne(st, curProps, prop) ==
  LET incomingProp == Get(st.props, prop)
      prior == Get(curProps, prop)
      priorOrEmpty == IF Truthy(prior) THEN prior ELSE Arr(<<>>)
  IN IF st.threw THEN st
     ELSE IF IsArray(incomingProp)
     THEN IF SpreadThrows(priorOrEmpty)
          THEN [st EXCEPT !.threw = TRUE]
          ELSE [st EXCEPT !.props =
                  Put(st.props, prop,
                      Arr(SpreadItems(priorOrEmpty) \o SpreadItems(incomingProp)))]
     ELSE IF TypeofObject(incomingProp)
     THEN [st EXCEPT !.props =
             Put(st.props, prop,
                 Obj(Overlay(SpreadFields(priorOrEmpty), SpreadFields(incomingProp))))]
     ELSE st

RECURSIVE MergeEach(_, _, _)
MergeEach(st, curProps, propsToMerge) ==
  IF propsToMerge = <<>> THEN st
  ELSE MergeEach(MergeOne(st, curProps, Head(propsToMerge)), curProps, Tail(propsToMerge))

\* Response.mergeProps(pageResponse): [threw, props], props being
\* pageResponse.props afterwards
MergeProps(r, cur) ==
  IF isPartial(r) /\ r.data.component = cur.component
  THEN LET st == MergeEach([threw |-> FALSE, props |-> r.data.props],
                           cur.props, r.data.mergeProps)
       IN IF st.threw THEN st
          ELSE [st EXCEPT !.props = Overlay(cur.props, st.props)]
  ELSE [threw |-> FALSE, props |-> r.data.props]

\* setRememberedState without the comparison of the components
SetRememberedStateAnyComponent(r, page, cur, remembered) ==
  IF r.preserveState /\ Truthy(remembered)
  THEN remembered
  ELSE page.rememberedState

\* Response.setRememberedState(pageResponse): the page's rememberedState
\* afterwards; remembered is History.getState(History.rememberedState)
SetRememberedState(r, page, cur, remembered) ==
  IF r.preserveState /\ Truthy(remembered) /\ page.component = cur.component
  THEN remembered
  ELSE page.rememberedState

\* Response.pageUrl(pageResponse)
PageUrl(r, page) == setHashIfSameUrl(r.url, hrefToUrl(page.url))

\* getScopedErrors ignoring the error bag
GetScopedErrorsUnscoped(r, errors) == errors

\* Response.getScopedErrors(errors)
GetScopedErrors(r, errors) ==
  IF r.errorBag = "" THEN errors
  ELSE LET scoped == Get(SpreadFields(errors), r.errorBag)
       IN IF Truthy(scoped) THEN scoped ELSE Obj(NoFields)

\* currentPage.get().props.errors || {}
PageErrors(page) ==
  LET e == Get(page.props, "errors")
  IN IF Truthy(e) THEN e ELSE Obj(NoFields)

\* Response.setPage() up to the call of currentPage.set:
\* [skip, threw, page], page being pageResponse as mutated
SetPage(r, cur, preserve, remembered) ==
  IF ~ShouldSetPage(r, cur)
  THEN [skip |-> TRUE, threw |-> FALSE, page |-> r.data]
  ELSE LET merged == MergeProps(r, cur)
           p1 == [r.data EXCEPT !.props = merged.props]
           p2 == [p1 EXCEPT !.rememberedState = SetRememberedState(r, p1, cur, remembered)]
           p3 == [p2 EXCEPT !.url = IF preserve THEN cur.url ELSE PageUrl(r, p2)]
       IN IF merged.threw
          THEN [skip |-> FALSE, threw |-> TRUE, page |-> p1]
          ELSE [skip |-> FALSE, threw |-> FALSE, page |-> p3]

-----------------------------------------------------------------------------
(* The machine: the mutable state a handler reads and writes, as a record, *)
(* so that the calls a handler makes in sequence compose.                  *)

Machine ==
  [queue |-> queue, processing |-> processing, responses |-> responses,
   currentPage |-> currentPage, preserveUrl |-> preserveUrl,
   storage |-> storage, browser |-> browser, history |-> history,
   trace |-> trace,
   commitLog |-> commitLog, errorArgs |-> errorArgs]

Install(m, ds) ==
  /\ queue' = m.queue
  /\ processing' = m.processing
  /\ responses' = m.responses
  /\ currentPage' = m.currentPage
  /\ preserveUrl' = m.preserveUrl
  /\ storage' = m.storage
  /\ browser' = m.browser
  /\ history' = m.history
  /\ trace' = m.trace
  /\ commitLog' = m.commitLog
  /\ errorArgs' = m.errorArgs
  /\ drains' = ds
  /\ UNCHANGED <<family, ret>>

\* the events a handler fires or the callbacks it invokes, in order
Emit(m, id, names) ==
  [m EXCEPT !.trace = @ \o [i \in 1..Len(names) |-> [r |-> id, ev |-> names[i]]]]

\* a ResponseQueue.process() coroutine: where it is suspended, the response
\* whose process() it awaits, and the page handed to currentPage.set
Drain(pc, id, pending) == [pc |-> pc, cur |-> id, pending |-> pending]

RemoveAt(ds, i) == SubSeq(ds, 1, i - 1) \o SubSeq(ds, i + 1, Len(ds))

\* locationVisit navigating although the write to session storage threw
LocationVisitIgnoringFailure(m, id, url) ==
  LET m1 == IF m.storage.ok
            THEN [m EXCEPT !.storage.marker =
                     <<[preserveScroll |-> m.responses[id].preserveScroll = Bool(TRUE)]>>]
            ELSE m
  IN IF isSameUrlWithoutHash(m.browser.location, url)
     THEN Emit([m1 EXCEPT !.browser.nav = <<"reload">>], id, <<"setMarker", "reload">>)
     ELSE Emit([m1 EXCEPT !.browser.nav = <<"href", url>>], id, <<"setMarker", "href">>)

\* Response.locationVisit(url)
LocationVisit(m, id, url) ==
  IF ~m.storage.ok
  THEN Emit(m, id, <<"storageThrows">>)
  ELSE LET m1 == [m EXCEPT !.storage.marker =
                      <<[preserveScroll |-> m.responses[id].preserveScroll = Bool(TRUE)]>>]
       IN IF isSameUrlWithoutHash(m.browser.location, url)
          THEN Emit([m1 EXCEPT !.browser.nav = <<"reload">>], id, <<"setMarker", "reload">>)
          ELSE Emit([m1 EXCEPT !.browser.nav = <<"href", url>>], id, <<"setMarker", "href">>)

\* Response.handleNonInertiaResponse()
HandleNonInertiaResponse(m, id) ==
  LET r == m.responses[id]
  IN IF isLocationVisit(r)
     THEN LocationVisit(m, id, setHashIfSameUrl(r.url, hrefToUrl(r.location[1])))
     ELSE IF ~r.invalidCancelled
     THEN Emit([m EXCEPT !.browser.modal = TRUE], id, <<"fireInvalid", "modalShow">>)
     ELSE Emit(m, id, <<"fireInvalid">>)

\* process() of a protocol response without the assignment of
\* History.preserveUrl: setPage() reads the flag as it was left
ProcessProtocolKeepingFlag(m, id) ==
  LET r == m.responses[id]
      sp == SetPage(r, m.currentPage, m.preserveUrl, m.history.rememberedState)
      m2 == [m EXCEPT !.responses[id].data = sp.page]
  IN IF sp.threw
     THEN [m |-> Emit(m2, id, <<"throw">>), d |-> Drain("rejected", id, <<>>)]
     ELSE IF sp.skip
     THEN [m |-> Emit(m, id, <<"setPageSkip">>), d |-> Drain("awaitSetPage", id, <<>>)]
     ELSE [m |-> m2, d |-> Drain("awaitSetPage", id, <<sp.page>>)]

\* Response.process() of a protocol response, up to `await this.setPage()'
ProcessProtocol(m, id) ==
  LET r == m.responses[id]
      m1 == [m EXCEPT !.preserveUrl = r.preserveUrl]
      sp == SetPage(r, m1.currentPage, m1.preserveUrl, m1.history.rememberedState)
      m2 == [m1 EXCEPT !.responses[id].data = sp.page]
  IN IF sp.threw
     THEN [m |-> Emit(m2, id, <<"throw">>), d |-> Drain("rejected", id, <<>>)]
     ELSE IF sp.skip
     THEN [m |-> Emit(m1, id, <<"setPageSkip">>), d |-> Drain("awaitSetPage", id, <<>>)]
     ELSE [m |-> m2, d |-> Drain("awaitSetPage", id, <<sp.page>>)]

\* the prefetch branch without its return
ProcessPrefetchFallingThrough(m, id) ==
  ProcessProtocol(Emit([m EXCEPT !.responses[id].prefetch = FALSE], id,
                       <<"start", "onPrefetched", "firePrefetched", "onPrefetchResponse",
                         "runCallbacks">>), id)

\* the prefetch branch leaving the prefetch flag of the request set
ProcessPrefetchKeepingFlag(m, id) ==
  [m |-> Emit(m, id, <<"start", "onPrefetched", "firePrefetched", "onPrefetchResponse">>),
   d |-> Drain("awaitProcess", id, <<>>)]

\* Response.process(), the prefetch branch: it returns without suspending
ProcessPrefetch(m, id) ==
  [m |-> Emit([m EXCEPT !.responses[id].prefetch = FALSE], id,
              <<"start", "onPrefetched", "firePrefetched", "onPrefetchResponse">>),
   d |-> Drain("awaitProcess", id, <<>>)]

\* Response.process() from its call to its first suspension (or its return)
StartProcess(m, id) ==
  LET r == m.responses[id]
      m1 == Emit(m, id, <<"start", "runCallbacks">>)
  IN IF r.prefetch THEN ProcessPrefetch(m, id)
     ELSE IF ~isInertiaResponse(r)
     THEN [m |-> HandleNonInertiaResponse(m1, id), d |-> Drain("awaitProcess", id, <<>>)]
     ELSE ProcessProtocol(m1, id)

\* this.queue.pop() on a non-empty queue
ShiftLast(q) == [next |-> q[Len(q)], rest |-> SubSeq(q, 1, Len(q) - 1)]

\* this.queue.shift() on a non-empty queue
Shift(q) == [next |-> Head(q), rest |-> Tail(q)]

\* ResponseQueue.processQueue() from its call to its first suspension
ProcessQueue(m) ==
  IF m.queue = <<>>
  THEN [m |-> m, d |-> Drain("unwinding", 0, <<>>)]
  ELSE StartProcess([m EXCEPT !.queue = Shift(m.queue).rest], Shift(m.queue).next)

\* the coroutine a call of processQueue() leaves suspended, as the one
\* coroutine ResponseQueue.process() spawned
Spawned(res) == [m |-> res.m, spawned |-> <<res.d>>]

\* ResponseQueue.process() without the test of the flag
QueueProcessUnguarded(m) == Spawned(ProcessQueue([m EXCEPT !.processing = TRUE]))

\* ResponseQueue.process() from its call to its first suspension: the
\* coroutine it leaves suspended, if any
QueueProcess(m) ==
  IF m.processing
  THEN [m |-> m, spawned |-> <<>>]
  ELSE Spawned(ProcessQueue([m EXCEPT !.processing = TRUE]))

\* Response.process() resumed after `await this.setPage()': the page handed
\* to currentPage.set, if any, has been committed
AfterSetPage(m, id) ==
  LET r == m.responses[id]
      errors == PageErrors(m.currentPage)
      scopedErrors == GetScopedErrors(r, errors)
  IN IF KeyCount(errors) > 0
     THEN [m |-> [Emit(m, id, <<"fireError", "onError">>)
                    EXCEPT !.errorArgs = Append(@, scopedErrors)],
           d |-> Drain("awaitProcess", id, <<>>)]
     ELSE [m |-> Emit(m, id, <<"fireSuccess", "onSuccess">>),
           d |-> Drain("awaitOnSuccess", id, <<>>)]

\* currentPage.set(page, options) settling: the page is the current page
CommitPage(m, id, page) ==
  Emit([m EXCEPT !.currentPage = page,
                 !.commitLog = Append(@, page),
                 !.browser.location = hrefToUrl(page.url)],
       id, <<"commit">>)

-----------------------------------------------------------------------------
(* Inputs *)

Rel(path) == Href("", path, "", "")

NoProps == NoFields

SomeErrors == Obj("name" :> Str(<<"r">>))

BagErrors == Obj("bag" :> Obj("title" :> Str(<<"t">>)))

\* the page the application starts on
StartPage(props) == Page("Start", Rel("/start"), props, <<>>)

\* a synchronous visit to /a answered by a protocol response
BaseResponse ==
  [prefetch |-> FALSE, async |-> FALSE, preserveUrl |-> FALSE,
   preserveState |-> FALSE, preserveScroll |-> Bool(FALSE), partial |-> FALSE,
   errorBag |-> "", url |-> hrefToUrl(Rel("/a")), inertia |-> TRUE,
   status |-> 200, location |-> <<>>, invalidCancelled |-> FALSE,
   originatingPage |-> StartPage(NoProps),
   data |-> Page("A", Rel("/a"), NoProps, <<>>)]

\* one response per path through process(): prefetch, invalid response,
\* success, validation errors, and a partial reload whose merge throws
QueueInputs ==
  { [BaseResponse EXCEPT !.prefetch = TRUE],
    [BaseResponse EXCEPT !.inertia = FALSE],
    BaseResponse,
    [BaseResponse EXCEPT !.data.props = "errors" :> SomeErrors],
    [BaseResponse EXCEPT !.partial = TRUE,
                         !.data = Page("Start", Rel("/start"), "a" :> Arr(<<Num(3)>>), <<"a">>)] }

\* visits dispatched from the start page to /a and /b
StaleInputs ==
  { [BaseResponse EXCEPT !.async = a, !.url = hrefToUrl(Rel(u)),
                         !.data = Page(c, Rel(u), props, <<>>)] :
      a \in BOOLEAN, c \in {"Start", "A"}, u \in {"/a", "/b"},
      props \in {NoProps, "errors" :> SomeErrors} }
  \cup
  { [BaseResponse EXCEPT !.async = TRUE, !.preserveUrl = TRUE, !.url = hrefToUrl(Rel("/b")),
                         !.data = Page(c, Rel("/b"), NoProps, <<>>)] :
      c \in {"Start", "A"} }

ErrorInputs ==
  { [BaseResponse EXCEPT !.preserveUrl = p, !.errorBag = b, !.data.props = props] :
      p \in BOOLEAN, b \in {"", "bag"},
      props \in {NoProps, "errors" :> SomeErrors, "errors" :> BagErrors} }

\* partial reloads of the start page
MergeInputs ==
  { [BaseResponse EXCEPT !.partial = TRUE, !.url = hrefToUrl(Rel("/start")),
                         !.data = Page("Start", Rel("/start"), "a" :> v, mp)] :
      mp \in {<<>>, <<"a">>}, v \in {Arr(<<Num(3)>>), Obj("y" :> Num(2)), Null} }

\* visits with and without preserveState, answered by the component of the
\* start page or by another one
RememberInputs ==
  { [BaseResponse EXCEPT !.preserveState = ps, !.data = Page(c, Rel("/a"), NoProps, <<>>)] :
      ps \in BOOLEAN, c \in {"Start", "A"} }

\* the visits of a run of the "startup" family: external redirects
StartupInputs ==
  { [BaseResponse EXCEPT !.inertia = FALSE, !.status = 409, !.preserveScroll = ps,
                         !.location = <<Rel(u)>>] :
      ps \in {Bool(TRUE), Bool(FALSE)}, u \in {"/ext"} }

\* external redirects to the current document and to another one, the visit
\* having set preserveScroll to true, false or 'errors'
LocationInputs ==
  { [BaseResponse EXCEPT !.inertia = FALSE, !.status = 409, !.preserveScroll = ps,
                         !.location = <<Rel(u)>>] :
      ps \in {Bool(TRUE), Bool(FALSE), Str(<<"errors">>)}, u \in {"/start", "/ext"} }

\* visits to /a with and without preserveUrl and a hash, one of them
\* redirected to /b, one answered with validation errors
UrlInputs ==
  { [BaseResponse EXCEPT !.preserveUrl = p, !.url.hash = h] :
      p \in BOOLEAN, h \in {"", "#top"} }
  \cup
  { [BaseResponse EXCEPT !.url.hash = "#top", !.data.url = Rel("/b")],
    [BaseResponse EXCEPT !.preserveUrl = TRUE, !.data.props = "errors" :> SomeErrors] }

\* prefetch probes answered by the component of the start page and by
\* another one, and a visit answered by that other one
PrefetchInputs ==
  { [BaseResponse EXCEPT !.prefetch = TRUE, !.url = hrefToUrl(Rel("/start")),
                         !.data = Page("Start", Rel("/start"), "n" :> Num(1), <<>>)],
    [BaseResponse EXCEPT !.prefetch = TRUE],
    BaseResponse }

\* what a form of the start page remembered
SomeRemembered == Obj("draft" :> Str(<<"d">>))

Families == {"queue", "stale", "errors", "merge", "remember", "location", "url",
             "prefetch"}

Inputs(f) ==
  CASE f = "queue" -> QueueInputs
    [] f = "stale" -> StaleInputs
    [] f = "errors" -> ErrorInputs
    [] f = "merge" -> MergeInputs
    [] f = "remember" -> RememberInputs
    [] f = "startup" -> StartupInputs
    [] f = "location" -> LocationInputs
    [] f = "url" -> UrlInputs
    [] f = "prefetch" -> PrefetchInputs
    [] OTHER -> {}

InitPages(f) ==
  CASE f = "queue" -> {StartPage("a" :> Obj("x" :> Num(1)))}
    [] f = "stale" -> {StartPage(NoProps)}
    [] f = "errors" -> {StartPage(NoProps)}
    [] f = "merge" -> {StartPage("a" :> Arr(<<Num(1), Num(2)>>)),
                       StartPage("a" :> Obj("x" :> Num(1)) @@ "b" :> Num(9))}
    [] f = "remember" -> {StartPage(NoProps)}
    [] f = "location" -> {StartPage(NoProps)}
    [] f = "url" -> {StartPage(NoProps)}
    [] f = "prefetch" -> {StartPage(NoProps)}
    [] OTHER -> {}

\* the scroll positions a history entry holds
SomeScrollRegions == Arr(<<Num(40)>>)

\* the page a history entry holds
SavedPage == Page("Saved", Rel("/saved"), NoProps, <<>>)

\* the entry of the History Adapter for the current navigation position:
\* whether it holds any state, the page it holds, and the remembered state
\* and scroll regions getState reads
HistoryEntry(has, rs, sr) ==
  [hasAnyState |-> has, page |-> SavedPage, rememberedState |-> rs, scrollRegions |-> sr]

\* the state the History Adapter holds when a run of family f starts
InitHistories(f) ==
  CASE f = "remember" -> {HistoryEntry(TRUE, rs, Undef) : rs \in {Undef, SomeRemembered}}
    [] f = "startup" -> {HistoryEntry(TRUE, Undef, Undef),
                         HistoryEntry(TRUE, SomeRemembered, SomeScrollRegions)}
    [] OTHER -> {HistoryEntry(FALSE, Undef, Undef)}

\* what session storage holds when a run of family f starts
InitStorages(f) ==
  CASE f = "startup" -> {[ok |-> TRUE, marker |-> mk] :
                           mk \in {<<>>, <<[preserveScroll |-> TRUE]>>,
                                   <<[preserveScroll |-> FALSE]>>}}
    [] f = "location" -> {[ok |-> ok, marker |-> <<>>] : ok \in BOOLEAN}
    [] OTHER -> {[ok |-> TRUE, marker |-> <<>>]}

\* how many responses a run of family f handles
HandleBound(f) ==
  CASE f = "queue" -> MaxQueueHandles
    [] f = "startup" -> MaxVisits
    [] OTHER -> MaxHandles

\* how many times a run of family f hands a prefetched response over again
PrefetchHandleBound(f) == IF f = "prefetch" THEN MaxPrefetchHandles ELSE 0

-----------------------------------------------------------------------------
(* The response queue and the processor *)

\* the state after construction, the page store holding page and rs being
\* the Response objects that exist
InitWith(f, page, rs) ==
  /\ family = f
  /\ currentPage = page
  /\ queue = <<>>
  /\ processing = FALSE
  /\ drains = <<>>
  /\ startup = <<>>
  /\ responses = rs
  /\ created = rs
  /\ preserveUrl = FALSE
  /\ storage \in InitStorages(f)
  /\ browser = [location |-> hrefToUrl(page.url), nav |-> <<>>, modal |-> FALSE,
                navigationType |-> "navigate"]
  /\ history \in InitHistories(f)
  /\ trace = <<>>
  /\ commitLog = <<>>
  /\ errorArgs = <<>>
  /\ ret = <<>>

Init == \E f \in Families : \E page \in InitPages(f) : InitWith(f, page, <<>>)

\* the machine a handler leaves and the coroutines it spawned become the state
InstallSpawned(res) == Install(res.m, drains \o res.spawned)

\* the machine a resumed coroutine leaves becomes the state, the coroutine
\* being suspended where d says
InstallResumed(res, i) == Install(res.m, [drains EXCEPT ![i] = res.d])

\* queue.add(response) of the Response numbered id
Add(m, id) == Emit([m EXCEPT !.queue = Append(@, id)], id, <<"handle">>)

\* Response.create(params, response, originatingPage).handle()
Handle(t) ==
  /\ Len(responses) < HandleBound(family)
  /\ InstallSpawned(QueueProcess(Add([Machine EXCEPT !.responses = Append(@, t)],
                                     Len(responses) + 1)))
  /\ created' = Append(created, t)
  /\ UNCHANGED startup

\* the handle() calls so far that enqueued a Response enqueued before
Rehandles ==
  Cardinality({i \in DOMAIN trace : trace[i].ev = "handle"}) - Len(responses)

\* Response.handlePrefetch() of a Response that answered a prefetch probe:
\* handle() again when its component is the current one
HandlePrefetch(id) ==
  /\ created[id].prefetch
  /\ currentPage.component = responses[id].data.component
  /\ Rehandles < PrefetchHandleBound(family)
  /\ InstallSpawned(QueueProcess(Add(Machine, id)))
  /\ UNCHANGED <<created, startup>>

\* `await this.setPage()' settles and process() runs to its next suspension
SetPageSettles(i) ==
  /\ drains[i].pc = "awaitSetPage"
  /\ LET d == drains[i]
         m1 == IF d.pending = <<>> THEN Machine ELSE CommitPage(Machine, d.cur, d.pending[1])
     IN InstallResumed(AfterSetPage(m1, d.cur), i) /\ UNCHANGED <<created, startup>>

\* `await onSuccess(...)' settles and process() runs to its end
OnSuccessSettles(i) ==
  /\ drains[i].pc = "awaitOnSuccess"
  /\ Install([Machine EXCEPT !.preserveUrl = FALSE],
             [drains EXCEPT ![i] = Drain("awaitProcess", drains[i].cur, <<>>)])
  /\ UNCHANGED <<created, startup>>

\* `await nextResponse.process()' settles and processQueue() calls itself
ProcessSettles(i) ==
  /\ drains[i].pc = "awaitProcess"
  /\ InstallResumed(ProcessQueue(Emit(Machine, drains[i].cur, <<"end">>)), i)
  /\ UNCHANGED <<created, startup>>

\* `await nextResponse.process()' rejects: processQueue() and the
\* ResponseQueue.process() awaiting it reject, and the flag stays set
ProcessRejects(i) ==
  /\ drains[i].pc = "rejected"
  /\ Install(Machine, RemoveAt(drains, i))
  /\ UNCHANGED <<created, startup>>

\* `await this.processQueue()' settles: the queue is marked idle
DrainSettles(i) ==
  /\ drains[i].pc = "unwinding"
  /\ Install([Machine EXCEPT !.processing = FALSE], RemoveAt(drains, i))
  /\ UNCHANGED <<created, startup>>

Next ==
  \/ \E t \in Inputs(family) : Handle(t)
  \/ \E id \in DOMAIN responses : HandlePrefetch(id)
  \/ \E i \in DOMAIN drains : SetPageSettles(i)
  \/ \E i \in DOMAIN drains : OnSuccessSettles(i)
  \/ \E i \in DOMAIN drains : ProcessSettles(i)
  \/ \E i \in DOMAIN drains : ProcessRejects(i)
  \/ \E i \in DOMAIN drains : DrainSettles(i)

Spec == Init /\ [][Next]_vars

-----------------------------------------------------------------------------
(* The initial visit (initialVisit.ts)                                     *)

\* the events of InitialVisit carry no response
Startup == 0

\* performance navigation types
NavigationTypes == {"navigate", "reload", "back_forward"}

\* a promise reaction InitialVisit left pending: where it waits, the scenario
\* that registered it, the marker that scenario read and the page handed to
\* currentPage.set
Reaction(pc, scenario, locationVisit, page) ==
  [pc |-> pc, scenario |-> scenario, locationVisit |-> locationVisit, page |-> page]

\* history.getState(key, default)
GetState(v, default) == IF v = Undef THEN default ELSE v

\* currentPage.setUrlHash(window.location.hash)
SetUrlHash(m) == [m EXCEPT !.currentPage.url.hash = m.browser.location.hash]

\* what history.decrypt() resolves with: the entry's page with the remembered
\* state and the scroll regions the entry holds
DecryptedPage(h) ==
  [h.page EXCEPT !.rememberedState = h.rememberedState, !.scrollRegions = h.scrollRegions]

\* clearRememberedStateOnReload without the test of the navigation type
ClearRememberedStateAlways(m) ==
  Emit([m EXCEPT !.history.rememberedState = Undef], Startup, <<"deleteRemembered">>)

\* InitialVisit.clearRememberedStateOnReload()
ClearRememberedStateOnReload(m) ==
  IF m.browser.navigationType = "reload"
  THEN Emit([m EXCEPT !.history.rememberedState = Undef], Startup, <<"deleteRemembered">>)
  ELSE m

\* handleBackForward without the test of history.hasAnyState()
HandleBackForwardWithoutState(m) ==
  IF m.browser.navigationType # "back_forward"
  THEN [m |-> m, ret |-> FALSE, pending |-> <<>>]
  ELSE [m |-> Emit(m, Startup, <<"backForward", "decrypt">>), ret |-> TRUE,
        pending |-> <<Reaction("awaitDecrypt", "backForward", <<>>, <<>>)>>]

\* InitialVisit.handleBackForward(): the machine afterwards, what it
\* returned and the reaction it left pending
HandleBackForward(m) ==
  IF m.browser.navigationType # "back_forward" \/ ~m.history.hasAnyState
  THEN [m |-> m, ret |-> FALSE, pending |-> <<>>]
  ELSE [m |-> Emit(m, Startup, <<"backForward", "decrypt">>), ret |-> TRUE,
        pending |-> <<Reaction("awaitDecrypt", "backForward", <<>>, <<>>)>>]

\* handleLocation without SessionStorage.remove
HandleLocationKeepingMarker(m) ==
  IF m.storage.marker = <<>>
  THEN [m |-> m, ret |-> FALSE, pending |-> <<>>]
  ELSE [m |-> Emit(SetUrlHash(m), Startup, <<"location", "decrypt">>), ret |-> TRUE,
        pending |-> <<Reaction("awaitDecrypt", "location", m.storage.marker, <<>>)>>]

\* InitialVisit.handleLocation()
HandleLocation(m) ==
  IF m.storage.marker = <<>>
  THEN [m |-> m, ret |-> FALSE, pending |-> <<>>]
  ELSE LET locationVisit == m.storage.marker
           m1 == [m EXCEPT !.storage.marker = <<>>]
       IN [m |-> Emit(SetUrlHash(m1), Startup, <<"location", "removeMarker", "decrypt">>),
           ret |-> TRUE,
           pending |-> <<Reaction("awaitDecrypt", "location", locationVisit, <<>>)>>]

\* InitialVisit.handleDefault(): it returns nothing
HandleDefault(m) ==
  LET m1 == SetUrlHash(m)
  IN [m |-> Emit(m1, Startup, <<"default", "set">>), ret |-> FALSE,
      pending |-> <<Reaction("awaitSet", "default", <<>>, <<m1.currentPage>>)>>]

\* handle() calling every scenario in turn (forEach for find)
InitialVisitHandleRunningAll(m) ==
  LET bf == HandleBackForward(ClearRememberedStateOnReload(m))
      loc == HandleLocation(bf.m)
      def == HandleDefault(loc.m)
  IN [def EXCEPT !.pending = bf.pending \o loc.pending \o @]

\* InitialVisit.handle(): scenarios.find stops at the first handler that
\* returns true
InitialVisitHandle(m) ==
  LET bf == HandleBackForward(ClearRememberedStateOnReload(m))
      loc == HandleLocation(bf.m)
  IN IF bf.ret THEN bf
     ELSE IF loc.ret THEN loc
     ELSE HandleDefault(loc.m)

\* whether the `then' of currentPage.set restores the scroll positions
RestoresScroll(reaction) ==
  CASE reaction.scenario = "backForward" -> TRUE
    [] reaction.scenario = "location" -> reaction.locationVisit[1].preserveScroll
    [] OTHER -> FALSE

\* the `then' of currentPage.set restoring the scroll positions in every
\* scenario
AfterInitialSetAlwaysRestoring(m, reaction) ==
  Emit(m, Startup, <<"scrollRestore", "fireNavigate">>)

\* the `then' of currentPage.set(...) in the three scenarios
AfterInitialSet(m, reaction) ==
  IF RestoresScroll(reaction)
  THEN Emit(m, Startup, <<"scrollRestore", "fireNavigate">>)
  ELSE Emit(m, Startup, <<"fireNavigate">>)

\* the `then' of history.decrypt(): [m, pending]
AfterDecrypt(m, reaction) ==
  IF reaction.scenario = "backForward"
  THEN [m |-> Emit(m, Startup, <<"set">>),
        pending |-> <<[reaction EXCEPT !.pc = "awaitSet", !.page = <<DecryptedPage(m.history)>>]>>]
  ELSE LET rememberedState == GetState(m.history.rememberedState, Obj(NoFields))
           scrollRegions == GetState(m.history.scrollRegions, Arr(<<>>))
           m1 == [m EXCEPT !.currentPage.rememberedState = rememberedState,
                           !.currentPage.scrollRegions = scrollRegions]
       IN [m |-> Emit(m1, Startup, <<"remember", "scrollRegions", "set">>),
           pending |-> <<[reaction EXCEPT !.pc = "awaitSet", !.page = <<m1.currentPage>>]>>]

\* history.decrypt() rejecting with no `catch' after the `then'
DecryptRejectedUncaught(m) == Emit(m, Startup, <<"unhandledRejection">>)

\* the `catch' after the `then' of history.decrypt()
DecryptRejected(m) == Emit(m, Startup, <<"missingHistoryItem">>)

\* how many documents have been loaded
Loads == Cardinality({i \in DOMAIN trace : trace[i] = [r |-> Startup, ev |-> "load"]})

\* a document of the application is loaded: the script state starts afresh,
\* session storage and the history entry stay, and the router calls
\* InitialVisit.handle()
Load(nt, has) ==
  /\ Loads < MaxStartups
  /\ LET m0 == [Machine EXCEPT !.queue = <<>>, !.processing = FALSE,
                               !.preserveUrl = FALSE,
                               !.currentPage = StartPage(NoProps),
                               !.browser = [location |-> hrefToUrl(Rel("/start")),
                                            nav |-> <<>>, modal |-> FALSE,
                                            navigationType |-> nt],
                               !.history.hasAnyState = has]
         res == InitialVisitHandle(Emit(m0, Startup, <<"load">>))
     IN /\ Install(res.m, <<>>)
        /\ startup' = res.pending
        /\ UNCHANGED created

\* history.decrypt() resolves
DecryptResolves ==
  /\ startup # <<>>
  /\ startup[1].pc = "awaitDecrypt"
  /\ LET res == AfterDecrypt(Machine, startup[1])
     IN /\ Install(res.m, drains)
        /\ startup' = res.pending \o Tail(startup)
        /\ UNCHANGED created

\* history.decrypt() rejects
DecryptRejects ==
  /\ startup # <<>>
  /\ startup[1].pc = "awaitDecrypt"
  /\ Install(DecryptRejected(Machine), drains)
  /\ startup' = Tail(startup)
  /\ UNCHANGED created

\* currentPage.set(...) of the initial visit resolves
InitialSetSettles ==
  /\ startup # <<>>
  /\ startup[1].pc = "awaitSet"
  /\ Install(AfterInitialSet(CommitPage(Machine, Startup, startup[1].page[1]), startup[1]),
             drains)
  /\ startup' = Tail(startup)
  /\ UNCHANGED created

\* a visit dispatched after the initial visit is answered
Visit(t) == Loads > 0 /\ startup = <<>> /\ Handle(t)

InitInitialVisit == InitWith("startup", StartPage(NoProps), <<>>)

NextInitialVisit ==
  \/ \E nt \in NavigationTypes : \E has \in BOOLEAN : Load(nt, has)
  \/ DecryptResolves
  \/ DecryptRejects
  \/ InitialSetSettles
  \/ \E t \in Inputs("startup") : Visit(t)
  \/ \E i \in DOMAIN drains : ProcessSettles(i)
  \/ \E i \in DOMAIN drains : DrainSettles(i)

SpecInitialVisit == InitInitialVisit /\ [][NextInitialVisit]_vars

-----------------------------------------------------------------------------
(* Direct calls of the pure helpers, on inputs drawn in the initial state  *)

ShouldHrefs ==
  { Href(o, p, q, "") : o \in {"", WindowOrigin, "https://other.test"},
                        p \in {"/users/1", "/users/2"}, q \in {"", "?page=2"} }

ShouldInputs ==
  { [BaseResponse EXCEPT !.async = a, !.originatingPage = Page(oc, ou, NoProps, <<>>),
                         !.data = Page(ic, Rel("/users/1"), NoProps, <<>>)] :
      a \in BOOLEAN, oc \in {"A", "B"}, ic \in {"A", "B"}, ou \in ShouldHrefs }

ShouldPages == { Page(cc, cu, NoProps, <<>>) : cc \in {"A", "B"}, cu \in ShouldHrefs }

RECURSIVE SeqsUpTo(_, _)
\* the sequences over S of length at most n
SeqsUpTo(S, n) ==
  IF n = 0 THEN {<<>>}
  ELSE LET shorter == SeqsUpTo(S, n - 1)
       IN shorter \cup {Append(q, x) : q \in shorter, x \in S}

PropValues ==
  {Null, Num(0), Num(5), Str(<<"x", "y">>)}
  \cup {Arr(q) : q \in SeqsUpTo({Num(1), Num(2)}, MaxLen)}
  \cup {Obj(NoFields), Obj("x" :> Num(1)), Obj("y" :> Num(2)),
        Obj("x" :> Num(3) @@ "y" :> Num(2))}

\* props holding "a", or not holding it
PropsWithA == {NoProps} \cup {"a" :> v : v \in PropValues}

MergeCallInputs ==
  { [BaseResponse EXCEPT !.partial = p, !.data = Page(c, Rel("/a"), props, mp)] :
      p \in BOOLEAN, c \in {"A", "B"}, mp \in {<<>>, <<"a">>}, props \in PropsWithA }

MergeCallPages == { Page("A", Rel("/a"), props @@ "b" :> Num(9), <<>>) : props \in PropsWithA }

InitShouldSetPage ==
  \E r \in ShouldInputs : \E page \in ShouldPages :
    InitWith("shouldSetPage", page, <<r>>)

\* this.shouldSetPage(pageResponse)
CallShouldSetPage ==
  /\ ret = <<>>
  /\ ret' = <<ShouldSetPage(responses[1], currentPage)>>
  /\ UNCHANGED <<queue, processing, drains, startup, responses, created, currentPage, preserveUrl,
                 storage, browser, history, trace, commitLog, errorArgs, family>>

SpecShouldSetPage == InitShouldSetPage /\ [][CallShouldSetPage]_vars

InitMergeProps ==
  \E r \in MergeCallInputs : \E page \in MergeCallPages :
    InitWith("mergeProps", page, <<r>>)

\* this.mergeProps(pageResponse)
CallMergeProps ==
  /\ ret = <<>>
  /\ ret' = <<MergeProps(responses[1], currentPage)>>
  /\ UNCHANGED <<queue, processing, drains, startup, responses, created, currentPage, preserveUrl,
                 storage, browser, history, trace, commitLog, errorArgs, family>>

SpecMergeProps == InitMergeProps /\ [][CallMergeProps]_vars

-----------------------------------------------------------------------------
(* Reading the trace *)

Ev(id, name) == [r |-> id, ev |-> name]

Has(id, name) == \E i \in DOMAIN trace : trace[i] = Ev(id, name)

\* the positions of the events named name
Positions(name) == {i \in DOMAIN trace : trace[i].ev = name}

\* how many of the first n events are named name
CountUpTo(n, name) == Cardinality({i \in 1..n : trace[i].ev = name})

\* the ids of the events named name, in order
IdsOf(name) ==
  LET sel == SelectSeq(trace, LAMBDA e : e.ev = name)
  IN [i \in DOMAIN sel |-> sel[i].r]

\* the events of response id, in order
EventsOf(id) ==
  LET sel == SelectSeq(trace, LAMBDA e : e.r = id)
  IN [i \in DOMAIN sel |-> sel[i].ev]

-----------------------------------------------------------------------------
(* Claims *)

\* C1: at every point of every run, at most one Response.process() has
\* started and not yet settled: a process() starts only after the one
\* started before it has resolved or rejected.
C1_NoOverlap ==
  \A n \in Positions("start") :
    CountUpTo(n, "start") - CountUpTo(n, "end") - CountUpTo(n, "throw") <= 1

\* C1 witness: a response handled while another one's process() was in
\* progress has itself been started afterwards.
C1_Witness ==
  \E i, j, k, l \in DOMAIN trace :
    /\ i < j /\ j < k /\ k < l
    /\ trace[i].ev = "start" /\ trace[j].ev = "handle" /\ trace[k] = Ev(trace[i].r, "end")
    /\ trace[l] = Ev(trace[j].r, "start")

\* C2: the responses are started in the order in which handle() added them.
C2_Fifo ==
  /\ Len(IdsOf("start")) <= Len(IdsOf("handle"))
  /\ \A i \in DOMAIN IdsOf("start") : IdsOf("start")[i] = IdsOf("handle")[i]

\* C2 witness: three responses have been started, the second and the third
\* both added while the first was being processed.
C2_Witness ==
  /\ Len(IdsOf("start")) = 3
  /\ \E i \in DOMAIN trace :
       /\ trace[i] = Ev(1, "end")
       /\ Cardinality({j \in 1..i : trace[j].ev = "handle"}) = 3

\* C3: no accepted response is left waiting without a drain to run it: when
\* the queue is marked idle, every response handle() accepted has been taken
\* off the queue.
C3_AcceptedIsProcessed == ~processing => queue = <<>>

\* C4: shouldSetPage returns true for a non-async visit; else true when the
\* incoming component differs from the originating one; else false when the
\* current component differs from the originating one; else true exactly
\* when the originating and the current URL agree in origin and path.
C4_Precedence ==
  ret # <<>> =>
    LET r == responses[1]
        from == hrefToUrl(r.originatingPage.url)
        now == hrefToUrl(currentPage.url)
    IN ret[1] =
         CASE ~r.async -> TRUE
           [] r.async /\ r.data.component # r.originatingPage.component -> TRUE
           [] r.async /\ r.data.component = r.originatingPage.component
              /\ currentPage.component # r.originatingPage.component -> FALSE
           [] OTHER -> from.origin = now.origin /\ from.pathname = now.pathname

\* C4 witness: an async visit, all three components equal, the URLs
\* differing in the query string alone, and the answer is true.
C4_Witness ==
  /\ ret = <<TRUE>>
  /\ responses[1].async
  /\ responses[1].data.component = responses[1].originatingPage.component
  /\ currentPage.component = responses[1].originatingPage.component
  /\ hrefToUrl(responses[1].originatingPage.url).search # hrefToUrl(currentPage.url).search

\* the names of the events of response id among trace[from..to]
EventsBetween(id, from, to) ==
  LET sel == SelectSeq(SubSeq(trace, from, to), LAMBDA e : e.r = id)
  IN [i \in DOMAIN sel |-> sel[i].ev]

Range(q) == {q[i] : i \in DOMAIN q}

\* C5 scenario: a and b are async visits from the same originating page (which
\* is neither /a nor /b), a to /a and b to /b; b's response was added first,
\* was applied under the URL /b and was the current page when a's process()
\* started; a's process() has finished at position done.
OverlappingVisits(a, b, done) ==
  /\ b < a
  /\ created[a].async /\ created[b].async
  /\ ~created[a].prefetch /\ ~created[b].prefetch
  /\ created[a].inertia /\ created[b].inertia
  /\ created[a].originatingPage = created[b].originatingPage
  /\ hrefToUrl(created[a].data.url).pathname = "/a"
  /\ hrefToUrl(created[b].data.url).pathname = "/b"
  /\ hrefToUrl(created[a].originatingPage.url).pathname \notin {"/a", "/b"}
  /\ trace[done] = Ev(a, "end")
  /\ \E i, j \in 1..done :
       /\ i < j
       /\ trace[i] = Ev(b, "commit")
       /\ trace[j] = Ev(a, "start")
       /\ hrefToUrl(commitLog[CountUpTo(i, "commit")].url).pathname = "/b"
       /\ \A n \in (i + 1)..(j - 1) : trace[n].ev # "commit"

\* the last page committed among the first n events was committed by b
StillPageOf(b, n) ==
  \E i \in 1..n : /\ trace[i] = Ev(b, "commit")
                  /\ \A later \in (i + 1)..n : trace[later].ev # "commit"

\* C5 as stated: in the scenario, the /a response is discarded and the /b
\* page is still the current page once both have been processed.
C5_LateResponseDiscarded ==
  \A a, b \in DOMAIN created : \A done \in DOMAIN trace :
    OverlappingVisits(a, b, done) => StillPageOf(b, done)

\* C5 amended: in the scenario, when the /a response carries the component
\* of the originating page (the visit was not redirected to another
\* component), it is discarded and the /b page is still the current page
\* once both have been processed.
C5_LateSameComponentDiscarded ==
  \A a, b \in DOMAIN created : \A done \in DOMAIN trace :
    (OverlappingVisits(a, b, done)
     /\ created[a].data.component = created[a].originatingPage.component)
    => (StillPageOf(b, done) /\ Has(a, "setPageSkip"))

\* C5 witness: the scenario has happened with an /a response of the
\* originating component, both pages being of that component, and /a was
\* skipped.
C5_Witness ==
  \E a, b \in DOMAIN created : \E done \in DOMAIN trace :
    /\ OverlappingVisits(a, b, done)
    /\ created[a].data.component = created[a].originatingPage.component
    /\ created[b].data.component = created[a].originatingPage.component
    /\ Has(a, "setPageSkip")
    /\ currentPage.component = created[b].data.component
    /\ hrefToUrl(currentPage.url).pathname = "/b"

\* the names of the events of response id this step adds, its being added
\* to the queue aside
NewEventsOf(id) ==
  LET sel == SelectSeq(SubSeq(trace', Len(trace) + 1, Len(trace')),
                       LAMBDA e : e.r = id /\ e.ev # "handle")
  IN [i \in DOMAIN sel |-> sel[i].ev]

\* C6: the step in which a response constructed with the prefetch flag is
\* processed changes neither the current page nor History.preserveUrl; it
\* invokes onPrefetched, fires the prefetched event and invokes
\* onPrefetchResponse, in this order and once each, and process() has then
\* returned without any other callback, event or commit.
C6_PrefetchLeavesPageAlone ==
  [][\A id \in DOMAIN created' :
       (created'[id].prefetch /\ ~Has(id, "start") /\ NewEventsOf(id) # <<>>)
       => /\ currentPage' = currentPage
          /\ preserveUrl' = preserveUrl
          /\ commitLog' = commitLog
          /\ NewEventsOf(id) =
               <<"start", "onPrefetched", "firePrefetched", "onPrefetchResponse">>
          /\ \E i \in DOMAIN drains' : drains'[i] = Drain("awaitProcess", id, <<>>)]_vars

\* C6 witness: a prefetch response has been processed to its end in a run
\* in which another response committed a page.
C6_Witness ==
  \E id \in DOMAIN created :
    /\ created[id].prefetch
    /\ Has(id, "onPrefetchResponse")
    /\ Has(id, "end")
    /\ commitLog # <<>>

\* the last event of response id
LastEventOf(id) == EventsOf(id)[Len(EventsOf(id))]

\* C7: once process() of a protocol response has run to its end, on the
\* success path or on the error path, History.preserveUrl is false; and it
\* is false whenever the queue is idle.
C7_PreserveUrlCleared ==
  /\ \A i \in DOMAIN drains :
       (drains[i].pc = "awaitProcess"
        /\ LastEventOf(drains[i].cur) \in {"onSuccess", "onError"})
       => ~preserveUrl
  /\ ~processing => ~preserveUrl

\* C8: a response that shouldSetPage rejected commits no page, fires no
\* error event and has no onError invoked.
C8_StaleIsSilent ==
  \A id \in DOMAIN created :
    Has(id, "setPageSkip")
    => ~Has(id, "commit") /\ ~Has(id, "fireError") /\ ~Has(id, "onError")

\* the errors prop of page holds at least one key
HasErrors(page) ==
  "errors" \in DOMAIN page.props /\ KeyCount(page.props["errors"]) > 0

\* the errors of page under bag, or all of them when no bag is named
ErrorsUnder(page, bag) ==
  IF bag = "" THEN page.props["errors"]
  ELSE IF bag \in DOMAIN page.props["errors"].fields
  THEN page.props["errors"].fields[bag]
  ELSE Obj(NoFields)

Outcomes == {"fireError", "onError", "fireSuccess", "onSuccess"}

\* the position at which the process() that reached position i started
StartBefore(id, i) ==
  CHOOSE b \in 1..i :
    /\ trace[b] = Ev(id, "start")
    /\ \A k \in (b + 1)..i : trace[k] # Ev(id, "start")

\* the position at which the process() that reached position i ended, or
\* the end of the trace while it runs
EndAfter(id, i) ==
  IF \E e \in i..Len(trace) : trace[e] = Ev(id, "end")
  THEN CHOOSE e \in i..Len(trace) :
         /\ trace[e] = Ev(id, "end")
         /\ \A k \in i..(e - 1) : trace[k] # Ev(id, "end")
  ELSE Len(trace)

\* the events q without the response's being added to the queue
Unqueued(q) == SelectSeq(q, LAMBDA ev : ev # "handle")

\* C9: for every commit, no outcome of that process() precedes it; what
\* follows it is the error event and then onError, invoked with the
\* committed page's errors under the request's error bag, when those errors
\* are non-empty, and the success event and then onSuccess when they are
\* empty; and nothing but the end of process() follows that.
C9_OneOutcomeAfterCommit ==
  \A i \in Positions("commit") :
    LET id == trace[i].r
        page == commitLog[CountUpTo(i, "commit")]
        before == EventsBetween(id, StartBefore(id, i), i - 1)
        after == Unqueued(EventsBetween(id, i + 1, EndAfter(id, i)))
    IN /\ Range(before) \cap Outcomes = {}
       /\ Len(after) >= 2
       /\ SubSeq(after, 1, 2) = IF HasErrors(page) THEN <<"fireError", "onError">>
                                ELSE <<"fireSuccess", "onSuccess">>
       /\ \A n \in 3..Len(after) : after[n] = "end"
       /\ HasErrors(page) =>
            \E j \in Positions("onError") :
              /\ trace[j].r = id
              /\ errorArgs[CountUpTo(j, "onError")] = ErrorsUnder(page, created[id].errorBag)

\* C9 witness: a response with an error bag has been committed, its
\* errors held a bag of that name, and onError received that bag.
C9_Witness ==
  \E id \in DOMAIN created :
    /\ created[id].errorBag = "bag"
    /\ Has(id, "commit") /\ Has(id, "onError") /\ Has(id, "end")
    /\ errorArgs = <<Obj("title" :> Str(<<"t">>))>>

\* prior and incoming combined as the merge policy states it
Combined(prior, incoming) ==
  IF prior.k = "arr" /\ incoming.k = "arr" THEN Arr(prior.items \o incoming.items)
  ELSE IF prior.k = "obj" /\ incoming.k = "obj"
  THEN Obj(Overlay(prior.fields, incoming.fields))
  ELSE incoming

\* C10: for a partial reload of the current component, mergeProps raises no
\* error and leaves the current props overlaid by the incoming ones, each
\* incoming prop named in mergeProps first combined with the prior value:
\* two sequences concatenated, two key/value structures shallow-merged, and
\* the incoming value as it is in every other case.
C10_MergePolicy ==
  (ret # <<>> /\ family = "mergeProps") =>
    LET r == responses[1]
        incoming == r.data.props
    IN (isPartial(r) /\ r.data.component = currentPage.component) =>
         ret[1] =
           [threw |-> FALSE,
            props |-> Overlay(currentPage.props,
                        [key \in DOMAIN incoming |->
                           IF key \in Range(r.data.mergeProps)
                           THEN Combined(Get(currentPage.props, key), incoming[key])
                           ELSE incoming[key]])]

\* the pages response id hands to currentPage.set in this step
HandedToSet(id) ==
  { drains'[i].pending[1] :
      i \in { j \in DOMAIN drains' : /\ drains'[j].cur = id
                                     /\ drains'[j].pc = "awaitSetPage"
                                     /\ drains'[j].pending # <<>> } }

\* this step runs process() of response id up to `await this.setPage()'
StartsProtocol(id) == "runCallbacks" \in Range(NewEventsOf(id))

\* this step commits the page a suspended setPage() handed to currentPage.set
CommitsHandedPage ==
  Len(commitLog') > Len(commitLog) =>
    /\ commitLog' = Append(commitLog, currentPage')
    /\ \E i \in DOMAIN drains : /\ drains[i].pc = "awaitSetPage"
                                /\ drains[i].pending = <<currentPage'>>

\* C11: the page a response hands to the Page Store carries the remembered
\* state held in history exactly when the visit requested preserveState, the
\* history holds a remembered state and the incoming component is that of
\* the page current when the response is processed; in every other case it
\* keeps the rememberedState of the payload; and that page is the one
\* committed.
C11_RememberedStateCarryOver ==
  [][/\ CommitsHandedPage
     /\ \A id \in DOMAIN created' :
          StartsProtocol(id) =>
            \A p \in HandedToSet(id) :
              p.rememberedState =
                IF /\ created'[id].preserveState
                   /\ Truthy(history.rememberedState)
                   /\ created'[id].data.component = currentPage.component
                THEN history.rememberedState
                ELSE created'[id].data.rememberedState]_vars

\* C11 witness: history held a remembered state; a preserveState visit
\* answered by the current component committed a page carrying it, and a
\* later preserveState visit answered by another component committed a page
\* without it.
C11_Witness ==
  /\ Truthy(history.rememberedState)
  /\ Len(commitLog) = 2
  /\ created[1].preserveState /\ created[2].preserveState
  /\ created[1].data.component = "Start" /\ created[2].data.component = "A"
  /\ commitLog[1].rememberedState = history.rememberedState
  /\ commitLog[2].rememberedState = Undef

\* C15: the step that processes a non-protocol response with status 409 and
\* a location header writes the marker, holding whether the visit's
\* preserveScroll is the boolean true, and then starts the navigation: a
\* reload when the target is the current document, an assignment of href
\* otherwise.  When the write to session storage throws, the step starts no
\* navigation and leaves session storage and the current page as they were,
\* and process() has resolved.
C15_MarkerBeforeNavigation ==
  [][\A id \in DOMAIN created' :
       ("start" \in Range(NewEventsOf(id)) /\ ~created'[id].prefetch
        /\ ~isInertiaResponse(created'[id]) /\ isLocationVisit(created'[id]))
       => /\ \E i \in DOMAIN drains' : drains'[i] = Drain("awaitProcess", id, <<>>)
          /\ currentPage' = currentPage
          /\ IF storage.ok
             THEN LET target == hrefToUrl(created'[id].location[1])
                      same == isSameUrlWithoutHash(browser.location, target)
                  IN /\ NewEventsOf(id) = <<"start", "runCallbacks", "setMarker",
                                            IF same THEN "reload" ELSE "href">>
                     /\ storage'.marker =
                          <<[preserveScroll |-> created'[id].preserveScroll = Bool(TRUE)]>>
                     /\ browser'.nav = IF same THEN <<"reload">> ELSE <<"href", target>>
             ELSE /\ NewEventsOf(id) = <<"start", "runCallbacks", "storageThrows">>
                  /\ browser' = browser
                  /\ storage' = storage]_vars

\* C15 witness: session storage refused the write; an external redirect has
\* been processed to its end and no navigation has started.
C15_Witness ==
  /\ ~storage.ok
  /\ browser.nav = <<>>
  /\ \E id \in DOMAIN created :
       /\ isLocationVisit(created[id])
       /\ Has(id, "storageThrows") /\ Has(id, "end")

\* C17: whenever no drain of the queue runs any more, because the queue
\* became empty or because a process() rejected, the queue is marked idle.
C17_IdleWhenDrainEnded == drains = <<>> => ~processing

\* C18: the page a protocol response hands to the Page Store has the URL of
\* the page current when the response is processed if the visit of this
\* response set preserveUrl, and otherwise the URL of the payload, with the
\* hash of the request URL when the payload's URL has none and the two are
\* the same apart from the hash; whatever History.preserveUrl held when
\* process() started; and that page is the one committed.
C18_UrlFromOwnFlag ==
  [][/\ CommitsHandedPage
     /\ \A id \in DOMAIN created' :
          StartsProtocol(id) =>
            \A p \in HandedToSet(id) :
              LET request == created'[id].url
                  response == hrefToUrl(created'[id].data.url)
              IN p.url =
                   IF created'[id].preserveUrl THEN currentPage.url
                   ELSE IF /\ request.hash # "" /\ response.hash = ""
                           /\ request.origin = response.origin
                           /\ request.pathname = response.pathname
                           /\ request.search = response.search
                   THEN [response EXCEPT !.hash = request.hash]
                   ELSE response]_vars

\* C18 witness: a preserveUrl visit answered with validation errors left
\* History.preserveUrl set; the next visit, without preserveUrl and with a
\* hash, was then committed under the URL of its payload with that hash.
C18_Witness ==
  /\ Len(created) = 2 /\ Len(commitLog) = 2
  /\ created[1].preserveUrl /\ Has(1, "onError")
  /\ ~created[2].preserveUrl /\ Has(2, "commit")
  /\ \E i \in DOMAIN trace : trace[i] = Ev(2, "start") /\ CountUpTo(i, "onError") = 1
  /\ commitLog[1].url = Rel("/start")
  /\ commitLog[2].url = Href(WindowOrigin, "/a", "", "#top")

\* the positions at which process() of response id started
StartsOf(id) == {i \in DOMAIN trace : trace[i] = Ev(id, "start")}

\* C20 on a trace: a response that answered a prefetch probe has
\* onPrefetched and onPrefetchResponse invoked and the prefetched event fired
\* at most once each; its first process() takes the prefetch path and leaves
\* the prefetch flag of the request cleared, and every later process() of it
\* starts with runCallbacks, the normal path.
PrefetchPathOnce ==
  \A id \in DOMAIN created :
    created[id].prefetch =>
      /\ \A name \in {"onPrefetched", "firePrefetched", "onPrefetchResponse"} :
           Cardinality({i \in DOMAIN trace : trace[i] = Ev(id, name)}) <= 1
      /\ StartsOf(id) # {} => ~responses[id].prefetch
      /\ \A i \in StartsOf(id) :
           /\ i < Len(trace)
           /\ trace[i + 1] = IF \A j \in StartsOf(id) : i <= j
                             THEN Ev(id, "onPrefetched")
                             ELSE Ev(id, "runCallbacks")

\* C20: every step leaves a trace on which each prefetched response has
\* taken the prefetch path at most once, and a step that enqueues a response
\* again does so only when the current component is that of the response.
C20_PrefetchPathOnce ==
  [][/\ PrefetchPathOnce'
     /\ \A id \in DOMAIN created :
          (/\ Len(created') = Len(created)
           /\ Ev(id, "handle") \in Range(SubSeq(trace', Len(trace) + 1, Len(trace'))))
          => currentPage.component = responses[id].data.component]_vars

\* C20 witness: a prefetched response has been processed twice, the second
\* time committing its page and succeeding, with onPrefetched invoked once.
C20_Witness ==
  \E id \in DOMAIN created :
    /\ created[id].prefetch
    /\ Cardinality(StartsOf(id)) = 2
    /\ Has(id, "onPrefetched") /\ Has(id, "commit") /\ Has(id, "onSuccess")
    /\ LastEventOf(id) = "end"

-----------------------------------------------------------------------------
(* Claims on the initial visit *)

ScenarioNames == {"backForward", "location", "default"}

\* the names of the events of InitialVisit this step adds
NewStartupEvents ==
  LET sel == SelectSeq(SubSeq(trace', Len(trace) + 1, Len(trace')),
                       LAMBDA e : e.r = Startup)
  IN [i \in DOMAIN sel |-> sel[i].ev]

\* this step loads a document and runs InitialVisit.handle()
LoadsDocument == NewStartupEvents # <<>> /\ NewStartupEvents[1] = "load"

\* C12: InitialVisit.handle() runs exactly one scenario body: back/forward
\* when the navigation is back/forward and the history has state; otherwise
\* location-resume when the marker is in session storage; otherwise default.
C12_ExactlyOneScenario ==
  [][LoadsDocument =>
       SelectSeq(NewStartupEvents, LAMBDA ev : ev \in ScenarioNames) =
         << IF browser'.navigationType = "back_forward" /\ history'.hasAnyState
            THEN "backForward"
            ELSE IF storage.marker # <<>> THEN "location"
            ELSE "default" >>]_vars

\* C12 witness: a back/forward navigation to an entry without state, the
\* marker being in session storage, took the location-resume scenario to
\* its navigate event.
C12_Witness ==
  /\ Loads = 1
  /\ browser.navigationType = "back_forward" /\ ~history.hasAnyState
  /\ Has(Startup, "location") /\ Has(Startup, "fireNavigate")

\* the position of the load event of the document that runs
LastLoad ==
  CHOOSE i \in DOMAIN trace :
    /\ trace[i] = Ev(Startup, "load")
    /\ \A j \in DOMAIN trace : trace[j] = Ev(Startup, "load") => j <= i

\* the events of the InitialVisit of the document that runs, in order
StartupEvents ==
  IF Loads = 0 THEN <<>> ELSE EventsBetween(Startup, LastLoad, Len(trace))

\* how many of the events q are named name
Count(q, name) == Cardinality({i \in DOMAIN q : q[i] = name})

\* C13: a startup signals at most once, by the navigate event or by the
\* missing-history-item signal, and has signalled exactly once when no
\* reaction of it is pending any more; the navigate event follows a commit;
\* the missing-history-item signal comes only in the back/forward and the
\* location-resume scenario, when decryption failed: nothing is thrown, no
\* page is committed, and the current page has been given neither a
\* remembered state nor scroll regions.
C13_OneSignalPerStartup ==
  LET evs == StartupEvents
      signals == Count(evs, "fireNavigate") + Count(evs, "missingHistoryItem")
  IN /\ signals <= 1
     /\ (Loads > 0 /\ startup = <<>>) => signals = 1
     /\ "unhandledRejection" \notin Range(evs)
     /\ "fireNavigate" \in Range(evs) => "commit" \in Range(evs)
     /\ "missingHistoryItem" \in Range(evs) =>
          /\ "decrypt" \in Range(evs)
          /\ "default" \notin Range(evs)
          /\ Range(evs) \cap {"commit", "set", "remember", "scrollRegions"} = {}
          /\ currentPage.rememberedState = Undef
          /\ currentPage.scrollRegions = Undef

\* C13 witness: the history held a remembered state and scroll regions, the
\* location-resume scenario ran, decryption failed and the signal was given.
C13_Witness ==
  /\ Truthy(history.rememberedState) /\ Truthy(history.scrollRegions)
  /\ "location" \in Range(StartupEvents)
  /\ "missingHistoryItem" \in Range(StartupEvents)
  /\ startup = <<>>

\* C14: the location-resume scenario removes the marker before it starts
\* the decryption; from then on, whatever the outcome of the decryption,
\* session storage holds no marker until a location visit writes one; and
\* between two startups that took the location-resume scenario a location
\* visit wrote the marker.
C14_MarkerConsumedOnce ==
  \A i \in Positions("location") :
    /\ i + 2 <= Len(trace)
    /\ trace[i + 1] = Ev(Startup, "removeMarker")
    /\ trace[i + 2] = Ev(Startup, "decrypt")
    /\ (\A k \in (i + 1)..Len(trace) : trace[k].ev # "setMarker") => storage.marker = <<>>
    /\ \A j \in Positions("location") :
         i < j => \E k \in (i + 1)..(j - 1) : trace[k].ev = "setMarker"

\* C14 witness: a startup took the location-resume scenario and its
\* decryption failed; a location visit then wrote the marker, and the next
\* startup took the scenario again.
C14_Witness ==
  \E i, j, k, l \in DOMAIN trace :
    /\ i < j /\ j < k /\ k < l
    /\ trace[i] = Ev(Startup, "location")
    /\ trace[j] = Ev(Startup, "missingHistoryItem")
    /\ trace[k].ev = "setMarker"
    /\ trace[l] = Ev(Startup, "location")

\* C16: a startup by reload deletes the remembered state of the history
\* entry first, before any scenario runs, and a startup of another
\* navigation type leaves it as it was; while a document loaded by reload
\* runs, the history holds no remembered state and the current page has not
\* been given the one the entry held.
C16_ReloadForgets ==
  [][/\ LoadsDocument =>
          IF browser'.navigationType = "reload"
          THEN /\ Len(NewStartupEvents) >= 3
               /\ NewStartupEvents[2] = "deleteRemembered"
               /\ NewStartupEvents[3] \in ScenarioNames
               /\ history'.rememberedState = Undef
          ELSE /\ "deleteRemembered" \notin Range(NewStartupEvents)
               /\ history'.rememberedState = history.rememberedState
     /\ browser'.navigationType = "reload" =>
          /\ history'.rememberedState = Undef
          /\ currentPage'.rememberedState \in {Undef, Obj(NoFields)}]_vars

\* C16 witness: the entry held a remembered state and scroll regions; the
\* document was reloaded with the marker in session storage, and the
\* location-resume scenario ran to its navigate event with the scroll
\* regions of the entry and an empty remembered state on the current page.
C16_Witness ==
  /\ browser.navigationType = "reload"
  /\ "location" \in Range(StartupEvents) /\ "fireNavigate" \in Range(StartupEvents)
  /\ currentPage.scrollRegions = SomeScrollRegions
  /\ currentPage.rememberedState = Obj(NoFields)

\* C19: the step that fires the navigate event is the one in which
\* currentPage.set resolves: it commits the page handed to it, then restores
\* the scroll positions in the back/forward scenario, in the location-resume
\* scenario when the marker it read held preserveScroll true, and never in
\* the default scenario, and then fires the event; the scroll positions are
\* restored in no other step; and the marker the location-resume scenario
\* goes by is the one session storage held at startup.
C19_CommitRestoreNavigate ==
  [][/\ (LoadsDocument /\ "location" \in Range(NewStartupEvents))
          => startup'[1].locationVisit = storage.marker
     /\ Range(NewStartupEvents) \cap {"fireNavigate", "scrollRestore", "commit"} # {}
          => /\ startup # <<>>
             /\ currentPage' = startup[1].page[1]
             /\ LET restores ==
                      \/ "backForward" \in Range(StartupEvents)
                      \/ /\ "location" \in Range(StartupEvents)
                         /\ startup[1].locationVisit[1].preserveScroll
                IN NewStartupEvents =
                     IF restores THEN <<"commit", "scrollRestore", "fireNavigate">>
                     ELSE <<"commit", "fireNavigate">>]_vars

\* C19 witness: the location-resume scenario, its marker holding
\* preserveScroll false, reached the navigate event without restoring the
\* scroll positions, after a startup of the back/forward scenario that
\* restored them.
C19_Witness ==
  /\ Loads = 2
  /\ Range(StartupEvents) \cap {"location", "fireNavigate"} = {"location", "fireNavigate"}
  /\ "scrollRestore" \notin Range(StartupEvents)
  /\ \E i \in 1..LastLoad : trace[i] = Ev(Startup, "scrollRestore")
  /\ \E i \in 1..LastLoad : trace[i] = Ev(Startup, "backForward")

====
